---------------------------- MODULE Spec2Model ----------------------------
(***************************************************************************)
(* Model of lib/classes/many_to_many.py: the Author / Magazine / Article   *)
(* classes, their validating property setters, the two class-level         *)
(* registries Article.all and Magazine.all, and the derived queries.       *)
(*                                                                         *)
(* Objects live in a heap: per class, the sequence of the instances        *)
(* constructed so far, each an attribute map; an object's identity is its  *)
(* class and its index.  An attribute map has exactly the attributes the   *)
(* Python object has, so hasattr is a test on its DOMAIN.  Every method    *)
(* call is one atomic action (the program is single-threaded) and leaves   *)
(* in `result` what the caller observes of it: which call it was, whether  *)
(* it raised, and the value it returned.  The queries read the state and   *)
(* change nothing: they are operators over the state.                      *)
(***************************************************************************)
EXTENDS Integers, Sequences, FiniteSets, TLC

VARIABLES heap, ArticleAll, MagazineAll, result

vars == <<heap, ArticleAll, MagazineAll, result>>

\* Bound of the model: the number of objects successfully constructed.
MaxObjects == 6

---------------------------------------------------------------------------
\* Python values handed to the setters: text, or a non-text value.
PyStr(s) == [type |-> "str", str |-> s, int |-> 0]
PyInt(n) == [type |-> "int", str |-> "", int |-> n]

\* Values returned to the caller.
None == [type |-> "NoneType"]
Ref(cls, id) == [type |-> cls, id |-> id]
List(items) == [type |-> "list", items |-> items]

isinstance_str(value) == value.type = "str"
len(value) == Len(value.str)

hasattr(obj, name) == name \in DOMAIN obj
setattr(obj, name, value) == (name :> value) @@ obj

\* What a setter or an __init__ does to `obj`: the object afterwards, and
\* whether an Exception propagated.
Returned(obj) == [raised |-> FALSE, obj |-> obj]
Raised(obj) == [raised |-> TRUE, obj |-> obj]

---------------------------------------------------------------------------
\* Inputs: texts on both sides of every length limit, and a non-text value.
Text4 == "Rust"
Text5 == "Bread"
Text50 == "The Rise of Memory Safe Systems Programming Today!"
Text51 == "The Rise of Memory Safe Systems Programming Today!!"
Text1 == "V"
Text2 == "GQ"
Text16 == "Scientific Amer."
Text17 == "Scientific Americ"

TitleInputs ==
    {PyStr(Text4), PyStr(Text5), PyStr(Text50), PyStr(Text51), PyInt(7)}
MagazineNameInputs ==
    {PyStr(Text1), PyStr(Text2), PyStr(Text16), PyStr(Text17), PyInt(7)}
CategoryInputs == {PyStr(""), PyStr("Tech"), PyInt(7)}
AuthorNameInputs == {PyStr(""), PyStr("Ada"), PyInt(7)}

---------------------------------------------------------------------------
\* The objects of each class.
Authors == 1..Len(heap.Author)
Magazines == 1..Len(heap.Magazine)
Articles == 1..Len(heap.Article)
NumObjects == Len(heap.Author) + Len(heap.Magazine) + Len(heap.Article)

\* The heap with one more instance of cls, and with obj in the place of
\* instance self of cls.
Allocate(cls, obj) == [heap EXCEPT ![cls] = Append(@, obj)]
Store(cls, self, obj) == [heap EXCEPT ![cls][self] = obj]

\* What a call leaves behind: the heap and the registries after it, and
\* what its caller sees (whether it raised, the value returned).
Outcome(op, raised, ret, h, articles, magazines) ==
    [op |-> op, raised |-> raised, ret |-> ret,
     heap |-> h, ArticleAll |-> articles, MagazineAll |-> magazines]

---------------------------------------------------------------------------
\* (variant) the setter without its hasattr guard: it validates and
\* assigns on every assignment.
Article_title_set_NoGuard(self, value) ==
    IF isinstance_str(value) /\ 5 <= len(value) /\ len(value) <= 50
    THEN Returned(setattr(self, "_title", value))
    ELSE Raised(self)

\* Article.title setter.
Article_title_set(self, value) ==
    IF ~hasattr(self, "_title")
    THEN IF isinstance_str(value) /\ 5 <= len(value) /\ len(value) <= 50
         THEN Returned(setattr(self, "_title", value))
         ELSE Raised(self)
    ELSE Returned(self)

\* Author.name setter.
Author_name_set(self, value) ==
    IF ~hasattr(self, "_name")
    THEN IF isinstance_str(value) /\ len(value) > 0
         THEN Returned(setattr(self, "_name", value))
         ELSE Raised(self)
    ELSE Returned(self)

\* (variant) the upper limit of the name taken as exclusive.
Magazine_name_set_Below16(self, value) ==
    IF isinstance_str(value) /\ 2 <= len(value) /\ len(value) < 16
    THEN Returned(setattr(self, "_name", value))
    ELSE Raised(self)

\* Magazine.name setter.
Magazine_name_set(self, value) ==
    IF isinstance_str(value) /\ 2 <= len(value) /\ len(value) <= 16
    THEN Returned(setattr(self, "_name", value))
    ELSE Raised(self)

\* Magazine.category setter.
Magazine_category_set(self, value) ==
    IF isinstance_str(value) /\ len(value) > 0
    THEN Returned(setattr(self, "_category", value))
    ELSE Raised(self)

---------------------------------------------------------------------------
\* (variant) __init__ with author and magazine stored the wrong way round.
Article_init_Swapped(author, magazine, title) ==
    Article_title_set(
        setattr(setattr([cls |-> "Article"], "author", magazine),
                "magazine", author),
        title)

\* Article.__init__ up to the registration: the three assignments in order.
Article_init(author, magazine, title) ==
    LET s0 == [cls |-> "Article"]
        s1 == setattr(s0, "author", author)
        s2 == setattr(s1, "magazine", magazine)
    IN  Article_title_set(s2, title)

\* Author.__init__.
Author_init(name) ==
    Author_name_set([cls |-> "Author"], name)

\* Magazine.__init__ up to the registration: name, then category.
Magazine_init(name, category) ==
    LET r1 == Magazine_name_set([cls |-> "Magazine"], name)
    IN  IF r1.raised THEN r1 ELSE Magazine_category_set(r1.obj, category)

\* (variant) the instance registered before its title is validated.
Article_new_RegisterFirst(op, author, magazine, title) ==
    LET r == Article_init(author, magazine, title)
        id == Len(heap.Article) + 1
    IN  Outcome(op, r.raised, IF r.raised THEN None ELSE Ref("Article", id),
                Allocate("Article", r.obj), Append(ArticleAll, id),
                MagazineAll)

\* Article(author, magazine, title), called as `op`: the instance is
\* appended to Article.all after its three attributes are set; an
\* Exception of the title setter leaves __init__ before the append.
Article_new(op, author, magazine, title) ==
    LET r == Article_init(author, magazine, title)
        id == Len(heap.Article) + 1
    IN  IF r.raised
        THEN Outcome(op, TRUE, None, heap, ArticleAll, MagazineAll)
        ELSE Outcome(op, FALSE, Ref("Article", id),
                     Allocate("Article", r.obj),
                     Append(ArticleAll, id), MagazineAll)

\* Author(name).
Author_new(name) ==
    LET r == Author_init(name)
        id == Len(heap.Author) + 1
    IN  IF r.raised
        THEN Outcome("Author", TRUE, None, heap, ArticleAll, MagazineAll)
        ELSE Outcome("Author", FALSE, Ref("Author", id),
                     Allocate("Author", r.obj), ArticleAll, MagazineAll)

\* (variant) the new Magazine put at the head of Magazine.all.
Magazine_new_Prepend(name, category) ==
    LET r == Magazine_init(name, category)
        id == Len(heap.Magazine) + 1
    IN  IF r.raised
        THEN Outcome("Magazine", TRUE, None, heap, ArticleAll, MagazineAll)
        ELSE Outcome("Magazine", FALSE, Ref("Magazine", id),
                     Allocate("Magazine", r.obj),
                     ArticleAll, <<id>> \o MagazineAll)

\* Magazine(name, category): appended to Magazine.all after both setters.
Magazine_new(name, category) ==
    LET r == Magazine_init(name, category)
        id == Len(heap.Magazine) + 1
    IN  IF r.raised
        THEN Outcome("Magazine", TRUE, None, heap, ArticleAll, MagazineAll)
        ELSE Outcome("Magazine", FALSE, Ref("Magazine", id),
                     Allocate("Magazine", r.obj),
                     ArticleAll, Append(MagazineAll, id))

\* Author.add_article
Author_add_article(self, magazine, title) ==
    Article_new("add_article", self, magazine, title)

\* obj.<attr> = value through a setter whose effect on the object is r.
Assigned(op, cls, self, r) ==
    Outcome(op, r.raised, None, Store(cls, self, r.obj),
            ArticleAll, MagazineAll)

\* article.title = value
Article_title_assign(self, value) ==
    Assigned("Article.title=", "Article", self,
             Article_title_set(heap.Article[self], value))

\* author.name = value
Author_name_assign(self, value) ==
    Assigned("Author.name=", "Author", self,
             Author_name_set(heap.Author[self], value))

\* magazine.name = value
Magazine_name_assign(self, value) ==
    Assigned("Magazine.name=", "Magazine", self,
             Magazine_name_set(heap.Magazine[self], value))

\* magazine.category = value
Magazine_category_assign(self, value) ==
    Assigned("Magazine.category=", "Magazine", self,
             Magazine_category_set(heap.Magazine[self], value))

\* article.author = value and article.magazine = value: author and
\* magazine are plain instance attributes (__init__ sets them, no property
\* guards them), so the assignment rebinds the attribute.
Article_author_assign(self, value) ==
    Assigned("Article.author=", "Article", self,
             Returned(setattr(heap.Article[self], "author", value)))

Article_magazine_assign(self, value) ==
    Assigned("Article.magazine=", "Article", self,
             Returned(setattr(heap.Article[self], "magazine", value)))

---------------------------------------------------------------------------
\* set(items): the distinct elements;  list(a_set): its elements in an
\* order the interpreter picks (hash order), so every order is possible.
set(items) == {items[i] : i \in 1..Len(items)}
list_of_set(s) ==
    {q \in [1..Cardinality(s) -> s] : \A i, j \in 1..Cardinality(s) :
                                          q[i] = q[j] => i = j}

\* [article.<name> for article in items]
RECURSIVE attr_of_each(_, _)
attr_of_each(items, name) ==
    IF items = <<>> THEN <<>>
    ELSE <<heap.Article[Head(items)][name]>>
             \o attr_of_each(Tail(items), name)

\* The counting loop of contributing_authors and top_publisher: a dict
\* (keys in insertion order) from each key to its number of occurrences.
EmptyDict == [keys |-> <<>>, get |-> <<>>]
RECURSIVE count_into(_, _)
count_into(d, ks) ==
    IF ks = <<>> THEN d
    ELSE LET k == Head(ks)
         IN  count_into(
                 IF k \in DOMAIN d.get
                 THEN [keys |-> d.keys, get |-> [d.get EXCEPT ![k] = @ + 1]]
                 ELSE [keys |-> Append(d.keys, k), get |-> (k :> 1) @@ d.get],
                 Tail(ks))

\* (variant) max keeping the last of the keys with the largest count.
RECURSIVE max_from_LastWins(_, _, _)
max_from_LastWins(best, ks, get) ==
    IF ks = <<>> THEN best
    ELSE max_from_LastWins(
             IF get[Head(ks)] >= get[best] THEN Head(ks) ELSE best,
             Tail(ks), get)

\* max(d, key=d.get) of a non-empty dict: the first key, in iteration
\* order, that no later key strictly exceeds.
RECURSIVE max_from(_, _, _)
max_from(best, ks, get) ==
    IF ks = <<>> THEN best
    ELSE max_from(IF get[Head(ks)] > get[best] THEN Head(ks) ELSE best,
                  Tail(ks), get)
\* (variant) the first key of the dict, whatever its count.
max_by_get_First(d) == Head(d.keys)

max_by_get(d) == max_from(Head(d.keys), Tail(d.keys), d.get)

---------------------------------------------------------------------------
\* (variant) articles() without its filter.
Author_articles_Unfiltered(self) == ArticleAll

\* Author.articles
Author_articles(self) ==
    SelectSeq(ArticleAll, LAMBDA article : heap.Article[article].author = self)

\* (variant) magazines() without the set(): one Magazine per Article.
Author_magazines_NoSet(self) ==
    {attr_of_each(Author_articles(self), "magazine")}

\* Author.magazines: the lists it may return.
Author_magazines(self) ==
    list_of_set(set(attr_of_each(Author_articles(self), "magazine")))

\* Magazine.articles
Magazine_articles(self) ==
    SelectSeq(ArticleAll, LAMBDA article : heap.Article[article].magazine = self)

\* Magazine.contributors: the lists it may return.
Magazine_contributors(self) ==
    list_of_set(set(attr_of_each(Magazine_articles(self), "author")))

\* Magazine.article_titles
Magazine_article_titles(self) ==
    IF Magazine_articles(self) = <<>> THEN None
    ELSE List(attr_of_each(Magazine_articles(self), "_title"))

\* Author.topic_areas: the values it may return.
Author_topic_areas(self) ==
    IF Author_articles(self) = <<>> THEN {None}
    ELSE {List(q) : q \in list_of_set(
             {heap.Magazine[heap.Article[a].magazine]._category :
                 a \in set(Author_articles(self))})}

\* (variant) contributing_authors() counting from 2 Articles on.
Magazine_contributing_authors_From2(self) ==
    LET authors == count_into(EmptyDict,
                       attr_of_each(Magazine_articles(self), "author"))
        res == SelectSeq(authors.keys, LAMBDA author : authors.get[author] >= 2)
    IN  IF res # <<>> THEN List(res) ELSE None

\* Magazine.contributing_authors
Magazine_contributing_authors(self) ==
    LET authors == count_into(EmptyDict,
                       attr_of_each(Magazine_articles(self), "author"))
        res == SelectSeq(authors.keys, LAMBDA author : authors.get[author] > 2)
    IN  IF res # <<>> THEN List(res) ELSE None

\* Magazine.top_publisher
Magazine_top_publisher ==
    IF ArticleAll = <<>> THEN None
    ELSE LET magazine_counts ==
                 count_into(EmptyDict, attr_of_each(ArticleAll, "magazine"))
         IN  IF magazine_counts.keys = <<>> THEN None
             ELSE Ref("Magazine", max_by_get(magazine_counts))

---------------------------------------------------------------------------
\* The state machine: a call happens, its outcome becomes the state.
Do(o) ==
    /\ heap' = o.heap
    /\ ArticleAll' = o.ArticleAll
    /\ MagazineAll' = o.MagazineAll
    /\ result' = [op |-> o.op, raised |-> o.raised, ret |-> o.ret]

\* A constructor that returns adds an object: the model stops at MaxObjects.
Construct(o) == (o.raised \/ NumObjects < MaxObjects) /\ Do(o)

Init ==
    /\ heap = [Author |-> <<>>, Magazine |-> <<>>, Article |-> <<>>]
    /\ ArticleAll = <<>>
    /\ MagazineAll = <<>>
    /\ result = [op |-> "import", raised |-> FALSE, ret |-> None]

NewAuthor == \E name \in AuthorNameInputs : Construct(Author_new(name))

NewMagazine ==
    \E name \in MagazineNameInputs, category \in CategoryInputs :
        Construct(Magazine_new(name, category))

\* The Articles of the state machine are constructed with the titles of
\* NewTitleInputs (one valid title, which keeps the states few) and are
\* assigned every title of TitleInputs; the properties of a constructor
\* call are stated of its outcome for every title of TitleInputs.
NewTitleInputs == TitleInputs \ {PyStr(Text50)}

NewArticle ==
    \E a \in Authors, m \in Magazines, title \in NewTitleInputs :
        Construct(Article_new("Article", a, m, title))

AddArticle ==
    \E a \in Authors, m \in Magazines, title \in NewTitleInputs :
        Construct(Author_add_article(a, m, title))

SetArticleTitle ==
    \E x \in Articles, value \in TitleInputs :
        Do(Article_title_assign(x, value))

SetAuthorName ==
    \E a \in Authors, value \in AuthorNameInputs :
        Do(Author_name_assign(a, value))

SetMagazineName ==
    \E m \in Magazines, value \in MagazineNameInputs :
        Do(Magazine_name_assign(m, value))

SetMagazineCategory ==
    \E m \in Magazines, value \in CategoryInputs :
        Do(Magazine_category_assign(m, value))

SetArticleAuthor ==
    \E x \in Articles, a \in Authors : Do(Article_author_assign(x, a))

SetArticleMagazine ==
    \E x \in Articles, m \in Magazines : Do(Article_magazine_assign(x, m))

Next ==
    \/ NewAuthor
    \/ NewMagazine
    \/ NewArticle
    \/ AddArticle
    \/ SetArticleTitle
    \/ SetAuthorName
    \/ SetMagazineName
    \/ SetMagazineCategory
    \/ SetArticleAuthor
    \/ SetArticleMagazine

Spec == Init /\ [][Next]_vars

---------------------------------------------------------------------------
(* Vocabulary of the properties, stated apart from the code above.         *)

TitleOk(v) == v.type = "str" /\ Len(v.str) \in 5..50
NameOk(v) == v.type = "str" /\ Len(v.str) \in 2..16
CategoryOk(v) == v.type = "str" /\ Len(v.str) >= 1

IsPrefix(s, t) == Len(s) <= Len(t) /\ \A i \in 1..Len(s) : t[i] = s[i]
NoDuplicates(q) == \A i, j \in 1..Len(q) : q[i] = q[j] => i = j

\* Positions of Article.all holding an Article of author a, of magazine m.
ByAuthor(a) ==
    {i \in 1..Len(ArticleAll) : heap.Article[ArticleAll[i]].author = a}
InMagazine(m) ==
    {i \in 1..Len(ArticleAll) : heap.Article[ArticleAll[i]].magazine = m}

\* The two ways of constructing an Article.
ArticleCalls(a, m, t) ==
    {Article_new("Article", a, m, t), Author_add_article(a, m, t)}

---------------------------------------------------------------------------
\* C1: construction is all-or-nothing.  In every reachable state, a call
\* Article(author, magazine, title) (direct or through add_article) whose
\* title is not a text of length 5..50, and a call Magazine(name, category)
\* whose name is not a text of length 2..16 or whose category is not a
\* non-empty text, raises and leaves Article.all and Magazine.all as they
\* were; a call with valid fields returns a new instance and appends exactly
\* it to the registry of its kind, the other registry unchanged.
C1_AllOrNothing ==
    /\ \A a \in Authors, m \in Magazines, t \in TitleInputs :
           \A o \in ArticleCalls(a, m, t) :
               IF TitleOk(t)
               THEN /\ ~o.raised
                    /\ o.ret.id \notin Articles
                    /\ o.ArticleAll = Append(ArticleAll, o.ret.id)
                    /\ o.MagazineAll = MagazineAll
               ELSE /\ o.raised
                    /\ o.ArticleAll = ArticleAll
                    /\ o.MagazineAll = MagazineAll
    /\ \A n \in MagazineNameInputs, c \in CategoryInputs :
           LET o == Magazine_new(n, c)
           IN  IF NameOk(n) /\ CategoryOk(c)
               THEN /\ ~o.raised
                    /\ o.ret.id \notin Magazines
                    /\ o.MagazineAll = Append(MagazineAll, o.ret.id)
                    /\ o.ArticleAll = ArticleAll
               ELSE /\ o.raised
                    /\ o.ArticleAll = ArticleAll
                    /\ o.MagazineAll = MagazineAll

\* A construction of an Article has raised with both registries populated.
C1_Witness ==
    /\ result.op = "Article" /\ result.raised
    /\ Len(ArticleAll) >= 1 /\ Len(MagazineAll) >= 2

\* C2: the registries are append-only: every step leaves the previous
\* contents of Article.all and of Magazine.all as a prefix of the new ones.
C2_AppendOnly ==
    [][IsPrefix(ArticleAll, ArticleAll') /\ IsPrefix(MagazineAll, MagazineAll')
      ]_vars

\* Both registries hold two entities and an attribute was assigned since.
C2_Witness ==
    /\ Len(ArticleAll) >= 2 /\ Len(MagazineAll) >= 2
    /\ result.op = "Article.magazine="

\* C3: title is write-once.  Assigning any value to the title of a
\* constructed Article raises nothing and leaves the title as it was, a
\* newly constructed Article has the title given to its constructor, no
\* step changes the title of a constructed Article, and every registered
\* Article's title is a text of length 5..50.
C3_TitleWriteOnce ==
    /\ [](\A x \in Articles, t2 \in TitleInputs :
              LET o == Article_title_assign(x, t2)
              IN  /\ ~o.raised
                  /\ o.heap.Article[x]._title = heap.Article[x]._title)
    /\ [](\A a \in Authors, m \in Magazines, t \in TitleInputs :
              \A o \in ArticleCalls(a, m, t) :
                  ~o.raised => o.heap.Article[o.ret.id]._title = t)
    /\ [][\A x \in Articles :
              heap'.Article[x]._title = heap.Article[x]._title]_vars
    /\ [](\A i \in 1..Len(ArticleAll) :
              TitleOk(heap.Article[ArticleAll[i]]._title))

\* A title was assigned to a constructed Article, and the call returned.
C3_Witness ==
    /\ result.op = "Article.title=" /\ ~result.raised
    /\ \E x \in Articles : heap.Article[x]._title = PyStr(Text5)

\* C4: Magazine.name is reject-and-preserve.  Assigning a value that is
\* not a text of length 2..16 raises and leaves the name as it was;
\* assigning a text of length 2..16 raises nothing and the name is then
\* that text; every registered Magazine's name is a text of length 2..16.
C4_NameRejectAndPreserve ==
    /\ [](\A m \in Magazines, v \in MagazineNameInputs :
              LET o == Magazine_name_assign(m, v)
              IN  IF NameOk(v)
                  THEN /\ ~o.raised
                       /\ o.heap.Magazine[m]._name = v
                  ELSE /\ o.raised
                       /\ o.heap.Magazine[m]._name = heap.Magazine[m]._name)
    /\ [][\A m \in Magazines :
              result'.raised =>
                  heap'.Magazine[m]._name = heap.Magazine[m]._name]_vars
    /\ [](\A i \in 1..Len(MagazineAll) :
              NameOk(heap.Magazine[MagazineAll[i]]._name))

\* An assignment to a Magazine's name was rejected, another had succeeded.
C4_Witness ==
    /\ result.op = "Magazine.name=" /\ result.raised
    /\ \E m, n \in Magazines :
           /\ heap.Magazine[m]._name = PyStr(Text16)
           /\ heap.Magazine[n]._name = PyStr(Text2)

\* C5 as stated: no step, attribute assignment included, changes the
\* author or the magazine a constructed Article references.
C5_ReferencesFixed ==
    [][\A x \in Articles :
           /\ heap'.Article[x].author = heap.Article[x].author
           /\ heap'.Article[x].magazine = heap.Article[x].magazine
      ]_vars

\* C5, amended: a newly constructed Article references the Author and the
\* Magazine given to its constructor; only an assignment to
\* article.author changes an author reference and only an assignment to
\* article.magazine changes a magazine reference, and such an assignment
\* raises nothing and leaves the reference at the assigned object.
C5_ReferencesChangeOnlyByAssignment ==
    /\ [](\A a \in Authors, m \in Magazines, t \in TitleInputs :
              \A o \in ArticleCalls(a, m, t) :
                  ~o.raised => /\ o.heap.Article[o.ret.id].author = a
                               /\ o.heap.Article[o.ret.id].magazine = m)
    /\ [](\A x \in Articles :
              /\ \A a \in Authors :
                     LET o == Article_author_assign(x, a)
                     IN  ~o.raised /\ o.heap.Article[x].author = a
              /\ \A m \in Magazines :
                     LET o == Article_magazine_assign(x, m)
                     IN  ~o.raised /\ o.heap.Article[x].magazine = m)
    /\ [][\A x \in Articles :
              /\ heap'.Article[x].author # heap.Article[x].author =>
                     result'.op = "Article.author="
              /\ heap'.Article[x].magazine # heap.Article[x].magazine =>
                     result'.op = "Article.magazine="]_vars

\* An Article's author was assigned, and the Articles reference two Authors.
C5_Witness ==
    /\ result.op = "Article.author="
    /\ \E x, y \in Articles : heap.Article[x].author # heap.Article[y].author

\* C6 as stated: a.articles() is the list of the Articles constructed with
\* author a, in creation order; so a step changes a.articles() only by
\* appending the Article it constructed with author a.
C6_ArticlesAsConstructed ==
    [][\A a \in 1..Len(heap'.Author) :
           Author_articles(a)' =
               IF /\ result'.op \in {"Article", "add_article"}
                  /\ ~result'.raised
                  /\ Len(heap'.Article) = Len(heap.Article) + 1
                  /\ heap'.Article[result'.ret.id].author = a
               THEN Append(Author_articles(a), result'.ret.id)
               ELSE Author_articles(a)
      ]_vars

\* C6, amended: a.articles() holds exactly the Articles of Article.all
\* whose author reference is a now (the Author given at construction unless
\* article.author was assigned since), each once, in registry order.
C6_ArticlesByCurrentAuthor ==
    \A a \in Authors :
        LET r == Author_articles(a)
        IN  /\ Len(r) = Cardinality(ByAuthor(a))
            /\ {r[k] : k \in 1..Len(r)} = {ArticleAll[i] : i \in ByAuthor(a)}
            /\ \A k, l \in 1..Len(r) :
                   k < l => \E i, j \in ByAuthor(a) :
                                i < j /\ ArticleAll[i] = r[k]
                                      /\ ArticleAll[j] = r[l]

\* An Author's two Articles lie around an Article of another Author.
C6_Witness ==
    \E a \in Authors :
        /\ Len(Author_articles(a)) = 2
        /\ \E i \in 1..Len(ArticleAll) :
               /\ i \notin ByAuthor(a)
               /\ \E j, k \in ByAuthor(a) : j < i /\ i < k

\* C7: top_publisher() returns None exactly when Article.all is empty;
\* otherwise it returns a Magazine with at least as many Articles in
\* Article.all as every Magazine (so the one with strictly the most, when
\* there is one).
C7_TopPublisher ==
    LET top == Magazine_top_publisher
    IN  /\ top.type = "NoneType" <=> ArticleAll = <<>>
        /\ top.type # "NoneType" =>
               /\ top.type = "Magazine"
               /\ top.id \in Magazines
               /\ \A m \in Magazines :
                      Cardinality(InMagazine(top.id))
                          >= Cardinality(InMagazine(m))

\* The Magazine with strictly the most Articles (2 against 1) is returned,
\* and the first Article of Article.all is not one of its.
C7_Witness ==
    \E m, n \in Magazines :
        /\ Magazine_top_publisher = Ref("Magazine", m)
        /\ Cardinality(InMagazine(m)) = 2
        /\ Cardinality(InMagazine(n)) = 1
        /\ 1 \in InMagazine(n)

\* C8: m.contributing_authors() returns None when no Author has more than
\* 2 Articles in m, and otherwise a list holding exactly the Authors with
\* more than 2 Articles in m, each once.
C8_ContributingAuthors ==
    \A m \in Magazines :
        LET r == Magazine_contributing_authors(m)
            many == {a \in Authors :
                        Cardinality(ByAuthor(a) \cap InMagazine(m)) > 2}
        IN  IF many = {}
            THEN r.type = "NoneType"
            ELSE /\ r.type = "list"
                 /\ {r.items[k] : k \in 1..Len(r.items)} = many
                 /\ NoDuplicates(r.items)

\* One Author has three Articles in a Magazine and is returned for it.
C8_Witness ==
    \E m \in Magazines, a \in Authors :
        /\ Cardinality(ByAuthor(a) \cap InMagazine(m)) = 3
        /\ Magazine_contributing_authors(m) = List(<<a>>)

\* C9: whatever order the lists come in, m is in a.magazines() iff a is in
\* m.contributors() iff some Article of Article.all references both a and
\* m; and neither list holds a duplicate.
C9_Symmetric ==
    \A a \in Authors, m \in Magazines :
        LET linked == ByAuthor(a) \cap InMagazine(m) # {}
        IN  /\ Author_magazines(a) # {}
            /\ Magazine_contributors(m) # {}
            /\ \A q \in Author_magazines(a) :
                   /\ (\E k \in 1..Len(q) : q[k] = m) <=> linked
                   /\ NoDuplicates(q)
            /\ \A q \in Magazine_contributors(m) :
                   /\ (\E k \in 1..Len(q) : q[k] = a) <=> linked
                   /\ NoDuplicates(q)

\* An Author has two Articles in one Magazine and one in another.
C9_Witness ==
    \E a \in Authors, m, n \in Magazines :
        /\ Cardinality(ByAuthor(a) \cap InMagazine(m)) = 2
        /\ Cardinality(ByAuthor(a) \cap InMagazine(n)) = 1

\* C10: when several Magazines share the largest number of Articles,
\* top_publisher() returns the one of them whose first Article comes
\* earliest in Article.all.
C10_TieBreak ==
    LET top == Magazine_top_publisher
        most(m) == \A n \in Magazines :
                       Cardinality(InMagazine(m)) >= Cardinality(InMagazine(n))
        first(m) == CHOOSE i \in InMagazine(m) :
                        \A j \in InMagazine(m) : i <= j
    IN  ArticleAll # <<>> =>
            /\ most(top.id)
            /\ \A m \in Magazines :
                   most(m) => first(top.id) <= first(m)

\* Two Magazines tie, and the one returned is not the one created first.
C10_Witness ==
    \E m, n \in Magazines :
        /\ m < n
        /\ Cardinality(InMagazine(m)) = Cardinality(InMagazine(n))
        /\ \A k \in Magazines :
               Cardinality(InMagazine(k)) <= Cardinality(InMagazine(n))
        /\ Magazine_top_publisher = Ref("Magazine", n)

=============================================================================
